---- MODULE Spec2Model ----
(***************************************************************************)
(* Model of the applications of the repository: EnhancedDataAgent          *)
(* (notebook/enhanced_data_agent.py) with its fallback translators, column *)
(* inference, process_query and the streamlit page over it; the gradio     *)
(* agent (notebook/sql agent/gradio_data_agent.py); and the StoryWeaver    *)
(* page (notebook/storyweaver/storyweaver-python.py).                      *)
(* Python strings are TLA+ strings; a call either returns a value or       *)
(* raises, and both outcomes are kept in the record of the call.           *)
(***************************************************************************)
EXTENDS Integers, Sequences, FiniteSets, TLC

VARIABLES
    conn,           \* self.conn: [open, tables], the sqlite connection and the tables behind it
    table_schema,   \* self.table_schema: ordered dict, a sequence of [name, columns]
    df,             \* self.df: [present, columns], columns a sequence of labels
    openai_client,  \* self.openai_client is set
    call,           \* the call in progress at the caller: [op, query, result]
    reply,          \* the dict process_query returned
    steps,          \* what the request did: translator and execution calls, their outcomes
    session_state,  \* st.session_state of the streamlit app, and what the page shows
    gradio_agent,   \* the global agent of the gradio app
    gradio_out,     \* the tuple the last gradio handler returned
    story_scenes,   \* st.session_state.story_scenes of StoryWeaver: a list of StoryScene
    current_scene,  \* st.session_state.current_scene, an index into the list, from 0
    story_page      \* what the last run of StoryWeaver's main() did and showed

vars == <<conn, table_schema, df, openai_client, call, reply, steps,
          session_state, gradio_agent, gradio_out,
          story_scenes, current_scene, story_page>>

\* the session of the StoryWeaver app
story == <<story_scenes, current_scene, story_page>>

\* the fields of the EnhancedDataAgent object
agent == <<conn, table_schema, df, openai_client>>

-----------------------------------------------------------------------------
(* Bounds of the model *)

\* words in a bounded question
MaxWords == 2

\* tables in a database
MaxTables == 2

\* Generate Query requests in a session of the app
MaxRequests == 6

\* scenes in a story of StoryWeaver: the three it starts with, and those added
MaxScenes == 4

\* query_history[-5:]: the entries the history panel lists
HistoryShown == 5

-----------------------------------------------------------------------------
(* Python values: str methods, results and exceptions *)

Ok(v) == [exc |-> "None", val |-> v]

Raise(e) == [exc |-> e, val |-> ""]

\* the fall-through of a search loop that ended without a return
NotFound == [exc |-> "NotFound", val |-> ""]

\* `s in q` on two str
Contains(s, q) ==
    \E i \in 1..(Len(q) - Len(s) + 1) : SubSeq(q, i, i + Len(s) - 1) = s

\* the cased characters of the questions and names: upper case to lower case
ToLower ==
    "A" :> "a" @@ "B" :> "b" @@ "C" :> "c" @@ "D" :> "d" @@ "E" :> "e" @@ "F" :> "f" @@
    "G" :> "g" @@ "H" :> "h" @@ "I" :> "i" @@ "J" :> "j" @@ "K" :> "k" @@ "L" :> "l" @@
    "M" :> "m" @@ "N" :> "n" @@ "O" :> "o" @@ "P" :> "p" @@ "Q" :> "q" @@ "R" :> "r" @@
    "S" :> "s" @@ "T" :> "t" @@ "U" :> "u" @@ "V" :> "v" @@ "W" :> "w" @@ "X" :> "x" @@
    "Y" :> "y" @@ "Z" :> "z"

\* one character of str.lower()
LowerChar(c) == IF c \in DOMAIN ToLower THEN ToLower[c] ELSE c

RECURSIVE LowerOf(_)
\* str.lower(), character by character
LowerOf(s) ==
    IF Len(s) = 0 THEN ""
    ELSE LowerChar(SubSeq(s, 1, 1)) \o LowerOf(SubSeq(s, 2, Len(s)))

\* a column label of a DataFrame: any hashable; str tells a str from the rest
StrLabel(s) == [str |-> TRUE, text |-> s]

IntLabel(s) == [str |-> FALSE, text |-> s]

-----------------------------------------------------------------------------
(* The data sources an agent is constructed over, and the questions asked *)

TableDefs ==
    { [name |-> "customers", columns |-> <<"id", "name", "city">>],
      [name |-> "people",    columns |-> <<"City", "Age">>],
      [name |-> "orders",    columns |-> <<"id", "total">>] }

\* a database file: its tables in sqlite_master order, names distinct
Databases ==
    UNION { { s \in [1..n -> TableDefs] : \A i, j \in 1..n : i # j => s[i].name # s[j].name }
            : n \in 0..MaxTables }

\* self.conn: None, or a connection object; fault is what sqlite answers to any
\* statement on a connection that cannot be used, "" on one that can
NoConn == [open |-> FALSE, fault |-> "", tables |-> <<>>]

Connection(tables) == [open |-> TRUE, fault |-> "", tables |-> tables]

NoDf == [present |-> FALSE, columns |-> <<>>]

Frame(labels) == [present |-> TRUE, columns |-> labels]

\* frames as pd.read_csv and the sample data build them: every label a str
DataFrames ==
    { Frame(<<StrLabel("age"), StrLabel("salary")>>),
      Frame(<<StrLabel("city"), StrLabel("age")>>),
      Frame(<<StrLabel("Age"), StrLabel("city")>>) }

\* frames a caller of the constructor may pass: labels of any type
DataFramesAnyLabel ==
    DataFrames \cup
    { Frame(<<IntLabel("0"), StrLabel("age")>>),
      Frame(<<StrLabel("age"), IntLabel("0")>>) }

\* the words the bounded questions are made of: keywords of the groups, a
\* capitalised keyword, a column name and a word that is neither
Words == { "group", "count", "by", "sum", "Average", "filter", "city", "xyz" }

RECURSIVE QuestionsOf(_)
\* the questions of exactly n words, joined by single spaces
QuestionsOf(n) ==
    IF n = 0 THEN {""}
    ELSE IF n = 1 THEN Words
    ELSE { q \o " " \o w : q \in QuestionsOf(n - 1), w \in Words }

\* the questions of the specification's examples and of the app's example buttons
Examples ==
    { "count customers by city", "average age", "gibberish xyz",
      "Show me all employees from Engineering department",
      "Count employees by city", "Calculate average salary",
      "Find top 5 employees by salary", "Show employees hired in 2023",
      "Get unique departments",
      "group by city", "group customers by city name",
      "total amount", "total average age", "sum mean", "avg age", "avg salary where city",
      "mean age", "mean filter", "filter average age", "where city", "where",
      "total sales where age", "age of people in each city",
      "count by first name", "mean o'clock" }

Questions == UNION { QuestionsOf(n) : n \in 0..MaxWords } \cup Examples

\* str.lower() of every question, computed once
LowerOfQuestion == [q \in Questions |-> LowerOf(q)]

\* str.lower()
Lower(s) == IF s \in Questions THEN LowerOfQuestion[s] ELSE LowerOf(s)

-----------------------------------------------------------------------------
(* EnhancedDataAgent *)

\* col.lower() on a label: only str has the method
LabelLower(col) ==
    IF col.str THEN Ok(Lower(col.text)) ELSE Raise("AttributeError")

RECURSIVE DictSet(_, _, _)
\* d[key] = value on an insertion-ordered dict
DictSet(d, key, value) ==
    IF d = <<>> THEN << [name |-> key, columns |-> value] >>
    ELSE IF Head(d).name = key THEN << [name |-> key, columns |-> value] >> \o Tail(d)
    ELSE << Head(d) >> \o DictSet(Tail(d), key, value)

RECURSIVE load_table_schema(_, _)
\* _load_table_schema: one entry per table of the connection, into the schema given
load_table_schema(schema, tables) ==
    IF tables = <<>> THEN schema
    ELSE load_table_schema(DictSet(schema, Head(tables).name, Head(tables).columns),
                           Tail(tables))

\* list(self.table_schema.keys())[0] without the guard of the conditional
TableNameUnguarded(schema) ==
    IF Len(schema) = 0 THEN Raise("IndexError") ELSE Ok(schema[1].name)

\* the last key in place of the first
TableNameLast(schema) ==
    IF Len(schema) > 0 THEN Ok(schema[Len(schema)].name) ELSE Ok("customers")

\* list(self.table_schema.keys())[0] if self.table_schema else 'customers'
TableName(schema) ==
    IF Len(schema) > 0 THEN Ok(schema[1].name) ELSE Ok("customers")

RECURSIVE ScanColumns(_, _)
\* for col in table_info['columns']: if col.lower() in query.lower(): return col
ScanColumns(cols, query) ==
    IF cols = <<>> THEN NotFound
    ELSE IF Contains(Lower(Head(cols)), Lower(query)) THEN Ok(Head(cols))
    ELSE ScanColumns(Tail(cols), query)

RECURSIVE ScanSchema(_, _)
\* for table_info in self.table_schema.values(): ...
ScanSchema(schema, query) ==
    IF schema = <<>> THEN NotFound
    ELSE LET r == ScanColumns(Head(schema).columns, query)
         IN  IF r # NotFound THEN r ELSE ScanSchema(Tail(schema), query)

RECURSIVE ScanFrame(_, _)
\* for col in self.df.columns: if col.lower() in query.lower(): return col
ScanFrame(labels, query) ==
    IF labels = <<>> THEN NotFound
    ELSE LET low == LabelLower(Head(labels))
         IN  IF low.exc # "None" THEN low
             ELSE IF Contains(low.val, Lower(query)) THEN Ok(Head(labels).text)
             ELSE ScanFrame(Tail(labels), query)

DefaultColumns == <<"name", "age", "amount", "city", "email", "date">>

RECURSIVE ScanDefaults(_, _)
\* for col in columns: if col in query.lower(): return col
ScanDefaults(cols, query) ==
    IF cols = <<>> THEN NotFound
    ELSE IF Contains(Head(cols), Lower(query)) THEN Ok(Head(cols))
    ELSE ScanDefaults(Tail(cols), query)

\* the dataframe consulted before the schema
extract_column_frame_first(query) ==
    LET f == IF df.present THEN ScanFrame(df.columns, query) ELSE NotFound
        s == IF table_schema # <<>> THEN ScanSchema(table_schema, query) ELSE NotFound
        d == ScanDefaults(DefaultColumns, query)
    IN  IF f # NotFound THEN f
        ELSE IF s # NotFound THEN s
        ELSE IF d # NotFound THEN d
        ELSE Ok("id")

\* _extract_column
extract_column(query) ==
    LET s == IF table_schema # <<>> THEN ScanSchema(table_schema, query) ELSE NotFound
    IN  IF s # NotFound THEN s
        ELSE LET f == IF df.present THEN ScanFrame(df.columns, query) ELSE NotFound
             IN  IF f # NotFound THEN f
                 ELSE LET d == ScanDefaults(DefaultColumns, query)
                      IN  IF d # NotFound THEN d ELSE Ok("id")

-----------------------------------------------------------------------------
(* The fallback translators *)

Lit(s) == [lit |-> TRUE, text |-> s]

Field(s) == [lit |-> FALSE, text |-> s]

RECURSIVE Format(_, _)
\* str.format(table=..., column=..., value=...): each field replaced by its argument
Format(template, args) ==
    IF template = <<>> THEN ""
    ELSE (IF Head(template).lit THEN Head(template).text ELSE args[Head(template).text])
         \o Format(Tail(template), args)

CountByGroup ==
    [keywords |-> <<"count", "group", "by">>,
     sql |-> << Lit("SELECT "), Field("column"), Lit(", COUNT(*) as count FROM "),
                Field("table"), Lit(" GROUP BY "), Field("column"),
                Lit(" ORDER BY count DESC;") >>]

TotalSum ==
    [keywords |-> <<"total", "sum">>,
     sql |-> << Lit("SELECT SUM("), Field("column"), Lit(") as total FROM "),
                Field("table"), Lit(";") >>]

AveragePattern ==
    [keywords |-> <<"average", "avg", "mean">>,
     sql |-> << Lit("SELECT AVG("), Field("column"), Lit(") as average FROM "),
                Field("table"), Lit(";") >>]

FilterPattern ==
    [keywords |-> <<"where", "filter">>,
     sql |-> << Lit("SELECT * FROM "), Field("table"), Lit(" WHERE "),
                Field("column"), Lit(" = '"), Field("value"), Lit("';") >>]

\* the average pattern entered in the dict before the sum pattern
PatternsAverageFirst == << CountByGroup, AveragePattern, TotalSum, FilterPattern >>

\* patterns, in the insertion order patterns.items() iterates
Patterns == << CountByGroup, TotalSum, AveragePattern, FilterPattern >>

\* any(keyword in query_lower for keyword in keywords)
AnyKeyword(keywords, query_lower) ==
    \E i \in 1..Len(keywords) : Contains(keywords[i], query_lower)

\* the body of the matched pattern: table name, column, format
FillPattern(pattern, query_lower) ==
    LET table_name == TableName(table_schema)
        column == extract_column(query_lower)
    IN  IF table_name.exc # "None" THEN table_name
        ELSE IF column.exc # "None" THEN column
        ELSE Ok(Format(pattern.sql,
                       [table |-> table_name.val, column |-> column.val, value |-> "value"]))

\* the generic fallback without its LIMIT
GenericSqlAllRows ==
    LET table_name == TableName(table_schema)
    IN  IF table_name.exc # "None" THEN table_name
        ELSE Ok("SELECT * FROM " \o table_name.val \o ";")

\* the generic fallback after the loop
GenericSql ==
    LET table_name == TableName(table_schema)
    IN  IF table_name.exc # "None" THEN table_name
        ELSE Ok("SELECT * FROM " \o table_name.val \o " LIMIT 10;")

RECURSIVE MatchPatterns(_, _)
\* for pattern_name, pattern_data in patterns.items(): the first match returns
MatchPatterns(patterns, query_lower) ==
    IF patterns = <<>> THEN GenericSql
    ELSE IF AnyKeyword(Head(patterns).keywords, query_lower)
         THEN FillPattern(Head(patterns), query_lower)
         ELSE MatchPatterns(Tail(patterns), query_lower)

fallback_sql_generation(query) == MatchPatterns(Patterns, Lower(query))

\* the body of a matched branch of the pandas translator
FillPandas(before, query_lower, after) ==
    LET column == extract_column(query_lower)
    IN  IF column.exc # "None" THEN column
        ELSE Ok(before \o column.val \o after)

fallback_pandas_generation(query) ==
    LET query_lower == Lower(query)
    IN  IF Contains("group", query_lower)
        THEN FillPandas("df.groupby('", query_lower, "').size().sort_values(ascending=False)")
        ELSE IF Contains("filter", query_lower)
        THEN FillPandas("df[df['", query_lower, "'].notna()]")
        ELSE IF \E word \in {"average", "mean"} : Contains(word, query_lower)
        THEN FillPandas("df['", query_lower, "'].mean()")
        ELSE Ok("df.head(10)")

-----------------------------------------------------------------------------
(* The state machine: an agent is constructed, then its methods are called *)

NoCall == [op |-> "none", query |-> "", result |-> Ok("")]

\* the results of a reply: rows, an empty table, a scalar, a message or an error text
Results(kind, text) == [kind |-> kind, text |-> text]

NoReply ==
    [query |-> "", generated_code |-> "", results |-> Results("none", ""), success |-> FALSE]

NoSteps ==
    [output_type |-> "", provider |-> "none", translated |-> Ok(""), translations |-> 0,
     executions |-> 0, executed |-> "none"]

\* 'last_result' not in st.session_state
NoResult ==
    [query |-> "", generated_code |-> "", results |-> Results("none", ""),
     success |-> FALSE, timestamp |-> 0]

\* 'execution_result' not in st.session_state
NoExecution == [shape |-> "none", code |-> ""]

\* st.session_state without an agent, and nothing on the page
NoSession ==
    [agent |-> FALSE, last_result |-> NoResult, execution_result |-> NoExecution,
     has_history |-> FALSE, query_history |-> <<>>, show_history |-> FALSE,
     shown |-> <<>>, clock |-> 0]

\* agent = None, the global of the gradio app
NoGradioAgent ==
    [set |-> FALSE, engine |-> FALSE, connects |-> FALSE, table_schemas |-> <<>>,
     df |-> NoDf, openai_client |-> FALSE]

\* no handler of the gradio app has run
NoOutput == [handler |-> "none", query |-> "", status |-> "", code |-> "", display |-> ""]

\* EnhancedDataAgent.__init__(db_path, dataframe, openai_api_key)
Construct(frames) ==
    /\ conn \in {NoConn} \cup { Connection(d) : d \in Databases }
    /\ table_schema = (IF conn.open THEN load_table_schema(<<>>, conn.tables) ELSE <<>>)
    /\ df \in {NoDf} \cup frames
    /\ openai_client \in BOOLEAN
    /\ call = NoCall

\* no request was processed yet
NoRequest ==
    /\ reply = NoReply
    /\ steps = NoSteps

\* no run of StoryWeaver's main() yet
NoPage == [handler |-> "none", scene |-> -1, said |-> {}, played |-> <<>>]

\* the StoryWeaver app was not started
NoStory ==
    /\ story_scenes = <<>>
    /\ current_scene = 0
    /\ story_page = NoPage

\* no app has run yet
NoApp ==
    /\ session_state = NoSession
    /\ gradio_agent = NoGradioAgent
    /\ gradio_out = NoOutput
    /\ NoStory

Init == Construct(DataFrames) /\ NoRequest /\ NoApp

InitAnyLabel == Construct(DataFramesAnyLabel) /\ NoRequest /\ NoApp

\* fallback_sql_generation(query), had it forgotten the schema once it answered
FallbackSqlForgetsSchema ==
    /\ call.op = "none"
    /\ \E query \in Questions :
         call' = [op |-> "sql", query |-> query, result |-> fallback_sql_generation(query)]
    /\ table_schema' = <<>>
    /\ UNCHANGED <<conn, df, openai_client>>
    /\ UNCHANGED story
    /\ UNCHANGED <<reply, steps, session_state, gradio_agent, gradio_out>>

\* a caller invokes fallback_sql_generation(query)
FallbackSql ==
    /\ call.op = "none"
    /\ \E query \in Questions :
         call' = [op |-> "sql", query |-> query, result |-> fallback_sql_generation(query)]
    /\ UNCHANGED agent
    /\ UNCHANGED story
    /\ UNCHANGED <<reply, steps, session_state, gradio_agent, gradio_out>>

\* a caller invokes fallback_pandas_generation(query)
FallbackPandas ==
    /\ call.op = "none"
    /\ \E query \in Questions :
         call' = [op |-> "pandas", query |-> query, result |-> fallback_pandas_generation(query)]
    /\ UNCHANGED agent
    /\ UNCHANGED story
    /\ UNCHANGED <<reply, steps, session_state, gradio_agent, gradio_out>>

\* a caller invokes _extract_column(query)
ExtractColumn ==
    /\ call.op = "none"
    /\ \E query \in Questions :
         call' = [op |-> "column", query |-> query, result |-> extract_column(query)]
    /\ UNCHANGED agent
    /\ UNCHANGED story
    /\ UNCHANGED <<reply, steps, session_state, gradio_agent, gradio_out>>

\* the caller takes the result (or catches the exception) and is free to call again
Return ==
    /\ call.op # "none"
    /\ call' = NoCall
    /\ reply' = NoReply
    /\ steps' = NoSteps
    /\ UNCHANGED agent
    /\ UNCHANGED story
    /\ UNCHANGED <<session_state, gradio_agent, gradio_out>>

Next == FallbackSql \/ FallbackPandas \/ ExtractColumn \/ Return

Spec == Init /\ [][Next]_vars

\* the same agent, constructed over a dataframe with labels of any type
SpecAnyLabel == InitAnyLabel /\ [][Next]_vars

\* tables and frames whose column names hold a space or a quote character, as
\* CREATE TABLE t ("first name" TEXT) and a CSV header allow them
NamedTableDefs ==
    { [name |-> "staff",  columns |-> <<"id", "first name">>],
      [name |-> "shifts", columns |-> <<"o'clock", "city">>] }

NamedDatabases ==
    UNION { { s \in [1..n -> NamedTableDefs] :
                \A i, j \in 1..n : i # j => s[i].name # s[j].name }
            : n \in 0..MaxTables }

NamedFrames ==
    { Frame(<<StrLabel("first name"), StrLabel("age")>>),
      Frame(<<StrLabel("city"), StrLabel("o'clock")>>) }

InitNames ==
    /\ conn \in {NoConn} \cup { Connection(d) : d \in NamedDatabases }
    /\ table_schema = (IF conn.open THEN load_table_schema(<<>>, conn.tables) ELSE <<>>)
    /\ df \in {NoDf} \cup NamedFrames
    /\ openai_client \in BOOLEAN
    /\ call = NoCall
    /\ NoRequest
    /\ NoApp

\* the same agent, over such a database or dataframe
SpecNames == InitNames /\ [][Next]_vars

-----------------------------------------------------------------------------
(* The agent at work: connect_to_database and process_query *)

\* what a db_path may name: a database file (a new file is a database without
\* tables), a path sqlite3.connect cannot open, a file that is not a database
Paths ==
    { [kind |-> "database", tables |-> d] : d \in Databases }
    \cup { [kind |-> "unopenable", tables |-> <<>>],
           [kind |-> "not_a_database", tables |-> <<>>] }

\* self.conn.close(): the attribute keeps the closed connection object
Closed(c) ==
    IF c.open THEN [c EXCEPT !.fault = "Cannot operate on a closed database."] ELSE c

\* connect_to_database(db_path): the agent's connection and schema after the
\* call, and the value returned
connect_to_database(c, schema, path) ==
    IF path.kind = "unopenable"
    THEN \* sqlite3.connect raises after the old connection was closed
         [conn |-> Closed(c), table_schema |-> schema, returned |-> "False"]
    ELSE IF path.kind = "not_a_database"
    THEN \* the first cursor.execute of _load_table_schema raises
         [conn |-> [open |-> TRUE, fault |-> "file is not a database", tables |-> <<>>],
          table_schema |-> schema, returned |-> "False"]
    ELSE [conn |-> Connection(path.tables),
          table_schema |-> load_table_schema(schema, path.tables),
          returned |-> "True"]

\* an exception with its message, str(e)
RaiseMsg(e, message) == [exc |-> e, val |-> message]

Range(f) == { f[i] : i \in DOMAIN f }

\* what the chat completion may do with a prompt: raise, or answer a content.
\* The backtick of a markdown fence is written ^ in the strings of this module.
LlmContents ==
    { "SELECT * FROM customers LIMIT 10;",
      "^^^sql\nSELECT * FROM orders LIMIT 10;\n^^^",
      " SELECT name FROM \n",
      "df.describe()",
      "^^^\ndf.shape[0]\n^^^",
      "df.groupby('city').size()" }

LlmOutcomes ==
    { [raises |-> TRUE, content |-> ""] }
    \cup { [raises |-> FALSE, content |-> c] : c \in LlmContents }

\* no completion is requested
NoLlm == [raises |-> FALSE, content |-> ""]

Whitespace == {" ", "\n", "\t"}

RECURSIVE Strip(_)
\* str.strip()
Strip(s) ==
    IF s = "" THEN s
    ELSE IF SubSeq(s, 1, 1) \in Whitespace THEN Strip(SubSeq(s, 2, Len(s)))
    ELSE IF SubSeq(s, Len(s), Len(s)) \in Whitespace THEN Strip(SubSeq(s, 1, Len(s) - 1))
    ELSE s

RECURSIVE Remove(_, _)
\* re.sub(fence + r'\n?', '', s): each occurrence of the fence removed, with the
\* newline that follows it if there is one
Remove(fence, s) ==
    IF Len(s) < Len(fence) THEN s
    ELSE IF SubSeq(s, 1, Len(fence)) = fence
    THEN LET rest == SubSeq(s, Len(fence) + 1, Len(s))
         IN  Remove(fence, IF rest # "" /\ SubSeq(rest, 1, 1) = "\n"
                           THEN SubSeq(rest, 2, Len(rest)) ELSE rest)
    ELSE SubSeq(s, 1, 1) \o Remove(fence, SubSeq(s, 2, Len(s)))

\* the content of the completion, stripped, the markdown fences removed
CleanCompletion(content, language) ==
    Remove("^^^", Remove("^^^" \o language, Strip(content)))

\* the completion is requested and answers
Answered(llm) == openai_client /\ ~llm.raises

\* openai_to_sql, had its except clause let the provider error through
openai_to_sql_raising(query, llm) ==
    IF Answered(llm) THEN Ok(CleanCompletion(llm.content, "sql"))
    ELSE IF openai_client THEN RaiseMsg("APIError", "Connection error.")
    ELSE fallback_sql_generation(query)

\* openai_to_sql(query), llm being what the completion does if it is requested:
\* without a client, and in the except clause, the fallback translator
openai_to_sql(query, llm) ==
    IF Answered(llm) THEN Ok(CleanCompletion(llm.content, "sql"))
    ELSE fallback_sql_generation(query)

\* openai_to_pandas(query)
openai_to_pandas(query, llm) ==
    IF Answered(llm) THEN Ok(CleanCompletion(llm.content, "python"))
    ELSE fallback_pandas_generation(query)

\* the names a generated statement may hold
TableNames == { t.name : t \in TableDefs } \cup {"customers"}

ColumnNames ==
    UNION { Range(t.columns) : t \in TableDefs }
    \cup UNION { { f.columns[i].text : i \in DOMAIN f.columns } : f \in DataFramesAnyLabel }
    \cup Range(DefaultColumns) \cup {"id"}

\* the statements of the translator, over a table and a column
StatementsOver(table, column) ==
    { Format(pattern.sql, [table |-> table, column |-> column, value |-> "value"])
        : pattern \in Range(Patterns) }
    \cup { "SELECT * FROM " \o table \o " LIMIT 10;" }

\* the statements sqlite is given, read back: the table and the columns each names
SqlReadings ==
    UNION { { [sql |-> sql, table |-> tc[1], column |-> tc[2]]
                : sql \in StatementsOver(tc[1], tc[2]) }
            : tc \in TableNames \X ColumnNames }

ParsedSql ==
    [sql \in { r.sql : r \in SqlReadings } |-> { r \in SqlReadings : r.sql = sql }]

LowerOfName == [c \in ColumnNames |-> LowerOf(c)]

\* sqlite compares identifiers without case
HasColumn(t, column) ==
    \E i \in DOMAIN t.columns : LowerOfName[t.columns[i]] = LowerOfName[column]

\* what the data lets an execution do: return rows, return none, or fail on a
\* value of the wrong type
DataOutcomes == {"rows", "empty", "mismatch"}

TableShape(data) == IF data = "empty" THEN "EmptyDataFrame" ELSE "DataFrame"

\* what sqlite answers to the statement on a database of these tables: "" when
\* it runs, else the message of its error
SqliteError(sql, tables) ==
    IF sql \notin DOMAIN ParsedSql THEN "incomplete input"
    ELSE LET readings == ParsedSql[sql]
             table == (CHOOSE r \in readings : TRUE).table
         IN  IF \A t \in Range(tables) : t.name # table
             THEN "no such table: " \o table
             ELSE LET t == CHOOSE t \in Range(tables) : t.name = table
                  IN  IF \E r \in readings : HasColumn(t, r.column) THEN ""
                      ELSE "no such column: " \o (CHOOSE r \in readings : TRUE).column

\* pd.read_sql_query(sql, conn): conn.cursor() raises on a closed connection;
\* an error of cursor.execute is raised again as a DatabaseError that quotes the
\* statement
read_sql_query(sql, c, data) ==
    IF c.fault = "Cannot operate on a closed database."
    THEN RaiseMsg("ProgrammingError", c.fault)
    ELSE LET error == IF c.fault # "" THEN c.fault ELSE SqliteError(sql, c.tables)
         IN  IF error = "" THEN Ok(TableShape(data))
             ELSE RaiseMsg("DatabaseError",
                           "Execution failed on sql '" \o sql \o "': " \o error)

\* execute_sql(sql)
execute_sql(c, sql, data) ==
    IF ~c.open THEN RaiseMsg("ValueError", "No database connection available")
    ELSE LET r == read_sql_query(sql, c, data)
         IN  IF r.exc # "None"
             THEN RaiseMsg("Exception", "SQL execution error: " \o r.val)
             ELSE r

\* the column labels of a dataframe that are str
Labels(frame) == { frame.columns[i].text : i \in { j \in DOMAIN frame.columns : frame.columns[j].str } }

\* the expressions eval is given, read back: what each does to df
PandasReadings ==
    { [code |-> "df.head(10)", does |-> "frame", column |-> ""],
      [code |-> "df.describe()", does |-> "frame", column |-> ""],
      [code |-> "df.shape[0]", does |-> "count", column |-> ""] }
    \cup UNION { { [code |-> "df.groupby('" \o c \o "').size().sort_values(ascending=False)",
                    does |-> "group", column |-> c],
                   [code |-> "df.groupby('" \o c \o "').size()",
                    does |-> "group", column |-> c],
                   [code |-> "df[df['" \o c \o "'].notna()]", does |-> "select", column |-> c],
                   [code |-> "df['" \o c \o "'].mean()", does |-> "mean", column |-> c] }
                 : c \in ColumnNames }

ParsedPandas ==
    [code \in { r.code : r \in PandasReadings } |->
        CHOOSE r \in PandasReadings : r.code = code]

\* eval(code) with df bound to the dataframe
eval(code, frame, data) ==
    IF code \notin DOMAIN ParsedPandas THEN RaiseMsg("SyntaxError", "invalid syntax")
    ELSE LET r == ParsedPandas[code]
         IN  IF r.does = "frame" THEN Ok(TableShape(data))
             ELSE IF r.does = "count" THEN Ok("scalar")
             ELSE IF r.column \notin Labels(frame)
             THEN RaiseMsg("KeyError", "'" \o r.column \o "'")
             ELSE IF r.does = "group" THEN Ok("Series")
             ELSE IF r.does = "select" THEN Ok(TableShape(data))
             ELSE IF data = "mismatch"
             THEN RaiseMsg("TypeError", "Could not convert string to numeric")
             ELSE Ok("scalar")

\* execute_pandas(code)
execute_pandas(frame, code, data) ==
    IF ~frame.present THEN RaiseMsg("ValueError", "No dataframe available")
    ELSE LET r == eval(code, frame, data)
         IN  IF r.exc # "None"
             THEN RaiseMsg("Exception", "Pandas execution error: " \o r.val)
             ELSE r

\* the except clause of process_query, had it kept the message to itself
ErrorReplyWithoutMessage(query, message) ==
    [query |-> query, generated_code |-> "",
     results |-> Results("error", "Error"), success |-> FALSE]

\* the except clause of process_query
ErrorReply(query, message) ==
    [query |-> query, generated_code |-> "",
     results |-> Results("error", "Error: " \o message), success |-> FALSE]

\* a return statement of the try block
SuccessReply(query, generated_code, results) ==
    [query |-> query, generated_code |-> generated_code, results |-> results,
     success |-> TRUE]

\* results.to_dict('records') if not results.empty else []
SqlResults(shape) ==
    Ok(IF shape = "EmptyDataFrame" THEN Results("records", "[]")
       ELSE Results("records", "rows"))

\* results if not hasattr(results, 'to_dict') else results.to_dict('records')
PandasResults(shape) ==
    IF shape = "scalar" THEN Ok(Results("scalar", "value"))
    ELSE IF shape = "Series"
    THEN \* Series.to_dict takes no orient: 'records' is read as the mapping type
         RaiseMsg("TypeError", "unsupported type: <class 'str'>")
    ELSE Ok(IF shape = "EmptyDataFrame" THEN Results("records", "[]")
            ELSE Results("records", "rows"))

\* the test of the data source, had it asked for any source instead of the one of
\* the output type
HasAnySource(output_type) == conn.open \/ df.present

\* the data source of the output type is there: if self.conn / if self.df is not None
HasSource(output_type) == IF output_type = "sql" THEN conn.open ELSE df.present

\* what a request did, for the record of its steps
StepsOf(output_type, llm, code, run) ==
    [output_type |-> output_type,
     provider |-> IF ~openai_client THEN "absent"
                  ELSE IF llm.raises THEN "raised" ELSE "answered",
     translated |-> code,
     translations |-> 1,
     executions |-> IF code.exc = "None" /\ HasSource(output_type) THEN 1 ELSE 0,
     executed |-> IF code.exc # "None" \/ ~HasSource(output_type) THEN "none"
                  ELSE IF run.exc # "None" THEN "raised" ELSE run.val]

\* the dict process_query returns once the code was generated and, with a data
\* source, executed
ReplyOf(query, output_type, code, run) ==
    LET results == IF output_type = "sql" THEN SqlResults(run.val)
                   ELSE PandasResults(run.val)
    IN  IF code.exc # "None" THEN ErrorReply(query, code.val)
        ELSE IF ~HasSource(output_type)
        THEN SuccessReply(query, code.val,
                Results("message",
                        IF output_type = "sql"
                        THEN "No database connected - code generated only"
                        ELSE "No dataframe loaded - code generated only"))
        ELSE IF run.exc # "None" THEN ErrorReply(query, run.val)
        ELSE IF results.exc # "None" THEN ErrorReply(query, results.val)
        ELSE SuccessReply(query, code.val, results.val)

\* the generated code is executed on the data source of the output type
Executed(query, output_type, llm, code, data) ==
    LET run == IF output_type = "sql" THEN execute_sql(conn, code.val, data)
               ELSE execute_pandas(df, code.val, data)
    IN  [steps |-> StepsOf(output_type, llm, code, run),
         reply |-> ReplyOf(query, output_type, code, run)]

\* process_query(natural_query, output_type): the dict returned (its timestamp
\* left to the caller's clock), and what the call did on the way
process_query(query, output_type, llm, data) ==
    Executed(query, output_type, llm,
             IF output_type = "sql" THEN openai_to_sql(query, llm)
             ELSE openai_to_pandas(query, llm),
             data)

\* the questions put to process_query
AgentQuestions ==
    { "count customers by city", "average age", "gibberish xyz", "group by city",
      "filter average age", "total amount" }

\* a caller invokes process_query(natural_query, output_type)
ProcessQuery ==
    /\ call.op = "none"
    /\ \E query \in AgentQuestions, output_type \in {"sql", "pandas"}, data \in DataOutcomes :
         \E llm \in (IF openai_client THEN LlmOutcomes ELSE {NoLlm}) :
            LET r == process_query(query, output_type, llm, data)
            IN  /\ reply' = r.reply
                /\ steps' = r.steps
                /\ call' = [op |-> "process", query |-> query,
                            result |-> Ok(r.reply.generated_code)]
    /\ UNCHANGED agent
    /\ UNCHANGED story
    /\ UNCHANGED <<session_state, gradio_agent, gradio_out>>

\* a caller invokes connect_to_database(db_path)
ConnectToDatabase ==
    /\ call.op = "none"
    /\ \E path \in Paths :
         LET after == connect_to_database(conn, table_schema, path)
         IN  /\ conn' = after.conn
             /\ table_schema' = after.table_schema
             /\ call' = [op |-> "connect", query |-> path.kind, result |-> Ok(after.returned)]
    /\ UNCHANGED <<df, openai_client>>
    /\ UNCHANGED story
    /\ UNCHANGED <<reply, steps, session_state, gradio_agent, gradio_out>>

NextAgent == ConnectToDatabase \/ ProcessQuery \/ Return

SpecAgent == Init /\ [][NextAgent]_vars

\* the same calls on an agent constructed over a dataframe with labels of any type
SpecAgentAnyLabel == InitAnyLabel /\ [][NextAgent]_vars

-----------------------------------------------------------------------------
(* The streamlit app: each interaction runs main() again over st.session_state *)

\* the questions typed in the text area: none, or an example of the page
SessionQuestions == { "", "Count employees by city" }

\* what the completion does in the sessions modelled
SessionLlm == { [raises |-> TRUE, content |-> ""] }

\* the Use OpenAI checkbox, left at its default: value=bool(openai_key)
UseOpenAI == openai_client

\* the dict of a request, with the timestamp of the clock: datetime.now(), the
\* count of the requests so far
Stamped(record, now) ==
    [query |-> record.query, generated_code |-> record.generated_code,
     results |-> record.results, success |-> record.success, timestamp |-> now]

\* the else branch of Generate Query: the fallback translator, nothing executed
FallbackOnly(query, output_type) ==
    LET generated_code == IF output_type = "sql" THEN fallback_sql_generation(query)
                          ELSE fallback_pandas_generation(query)
    IN  SuccessReply(query, generated_code.val,
                     Results("message", "Code generated (execute to see results)"))

\* if st.button("Generate Query"): the record of the request
Generated(query, output_type, use_openai, llm) ==
    IF use_openai /\ openai_client
    THEN process_query(query, output_type, llm, "rows").reply
    ELSE FallbackOnly(query, output_type)

\* the button was clicked with a question in the text area: last_result is set
Clicked(ss, record) ==
    [ss EXCEPT !.last_result = Stamped(record, ss.clock + 1),
               !.clock = ss.clock + 1]

RECURSIVE Reversed(_)
\* reversed(list)
Reversed(list) ==
    IF list = <<>> THEN <<>> ELSE Reversed(Tail(list)) \o << Head(list) >>

\* list[-n:] with the first n entries in place of the last n
FirstEntries(list, n) == IF Len(list) <= n THEN list ELSE SubSeq(list, 1, n)

\* list[-n:]
LastEntries(list, n) ==
    IF Len(list) <= n THEN list ELSE SubSeq(list, Len(list) - n + 1, Len(list))

\* if st.checkbox("Show Query History"): the list is created, last_result is
\* appended unless it is in the list, and the panel lists the last entries,
\* newest first; without the checkbox nothing of this runs
QueryHistory(ss) ==
    IF ~ss.show_history THEN [ss EXCEPT !.shown = <<>>]
    ELSE LET history ==
                 IF ss.last_result # NoResult
                    /\ \A i \in DOMAIN ss.query_history : ss.query_history[i] # ss.last_result
                 THEN Append(ss.query_history, ss.last_result)
                 ELSE ss.query_history
         IN  [ss EXCEPT !.has_history = TRUE,
                        !.query_history = history,
                        !.shown = Reversed(LastEntries(history, HistoryShown))]

\* the user clicks Generate Query: main() runs with the button pressed
GenerateQuery ==
    /\ session_state.agent
    /\ session_state.clock < MaxRequests
    /\ \E query \in SessionQuestions, output_type \in {"sql", "pandas"}, llm \in SessionLlm :
         session_state' =
            QueryHistory(IF query # ""
                         THEN Clicked(session_state,
                                      Generated(query, output_type, UseOpenAI, llm))
                         ELSE session_state)
    /\ UNCHANGED agent
    /\ UNCHANGED story
    /\ UNCHANGED <<call, reply, steps, gradio_agent, gradio_out>>

\* the user ticks or unticks Show Query History: main() runs again
ToggleHistory ==
    /\ session_state.agent
    /\ session_state' =
          QueryHistory([session_state EXCEPT !.show_history = ~session_state.show_history])
    /\ UNCHANGED agent
    /\ UNCHANGED story
    /\ UNCHANGED <<call, reply, steps, gradio_agent, gradio_out>>

\* what the Execute button leaves in execution_result: the value executing the
\* code returned (its shape, and the code it is the result of), the value kept
\* when nothing is stored
ExecutionResult(ss, output_type, data) ==
    LET code == ss.last_result.generated_code
        run == IF output_type = "sql" THEN execute_sql(conn, code, data)
               ELSE execute_pandas(df, code, data)
    IN  IF HasSource(output_type) /\ run.exc = "None"
        THEN [shape |-> run.val, code |-> code]
        ELSE ss.execution_result

\* the user clicks Execute under the generated code: main() runs again
Execute ==
    /\ session_state.agent
    /\ session_state.last_result # NoResult
    /\ \E output_type \in {"sql", "pandas"}, data \in DataOutcomes :
         session_state' =
            QueryHistory([session_state EXCEPT
                            !.execution_result =
                                ExecutionResult(session_state, output_type, data)])
    /\ UNCHANGED agent
    /\ UNCHANGED story
    /\ UNCHANGED <<call, reply, steps, gradio_agent, gradio_out>>

\* the sidebar has put an agent over a dataframe into the session
InitSession ==
    /\ Construct(DataFrames) /\ conn = NoConn /\ df.present
    /\ NoRequest
    /\ session_state = [NoSession EXCEPT !.agent = TRUE]
    /\ gradio_agent = NoGradioAgent
    /\ gradio_out = NoOutput
    /\ NoStory

NextSession == GenerateQuery \/ ToggleHistory \/ Execute

SpecSession == InitSession /\ [][NextSession]_vars

-----------------------------------------------------------------------------
(* The gradio app: handlers over the global agent. The check mark and the    *)
(* cross that open its status texts are written [ok] and [x].                *)

\* the attributes class EnhancedDataAgent of gradio_data_agent.py defines
GradioMethods ==
    { "__init__", "_connect_to_database", "_load_table_schemas", "get_schema_info",
      "generate_sql_with_openai", "generate_pandas_with_openai",
      "execute_sql", "execute_pandas" }

\* agent.<name>: the bound method, or AttributeError
GetAttr(name) ==
    IF name \in GradioMethods THEN Ok(name)
    ELSE RaiseMsg("AttributeError",
                  "'EnhancedDataAgent' object has no attribute '" \o name \o "'")

\* what the handler returns to the page
Output(handler, query, status, code, display) ==
    [handler |-> handler, query |-> query, status |-> status, code |-> code,
     display |-> display]

\* the sample data initialize_agent builds
SampleData ==
    Frame(<< StrLabel("customer_id"), StrLabel("name"), StrLabel("city"),
             StrLabel("age"), StrLabel("amount"), StrLabel("order_date") >>)

\* the database form of the page: type, database, port, and what the path names
DatabaseForms ==
    { [db_type |-> "sqlite", database |-> "", port |-> "", path |-> p] : p \in Paths }
    \cup { [db_type |-> "sqlite", database |-> "data.db", port |-> "", path |-> p]
             : p \in Paths }
    \cup { [db_type |-> "oracle", database |-> "data.db", port |-> "", path |-> p]
             : p \in { q \in Paths : q.kind = "unopenable" } }
    \cup { [db_type |-> "mysql", database |-> "shop", port |-> port, path |-> p]
             : port \in {"", "abc"}, p \in { q \in Paths : q.kind = "unopenable" } }

\* db_config: set if db_type and database
HasConfig(form) == form.db_type # "" /\ form.database # ""

\* _connect_to_database: the engine is there unless the type is unsupported;
\* create_engine opens nothing
Engine(form) == HasConfig(form) /\ form.db_type \in {"sqlite", "mysql", "postgresql"}

\* self.engine.connect() succeeds: there is an engine, and the database it names
\* can be opened (the servers of the forms modelled cannot be reached)
Connects(form) ==
    Engine(form) /\ form.db_type = "sqlite" /\ form.path.kind = "database"

\* _load_table_schemas: the tables read through the engine, none if the
\* connection or a query fails (the exception is printed)
LoadedSchemas(form) ==
    IF Connects(form)
    THEN load_table_schema(<<>>, form.path.tables)
    ELSE <<>>

\* EnhancedDataAgent(db_config, dataframe, openai_api_key) of the gradio app
GradioAgent(form, frame, key) ==
    [set |-> TRUE, engine |-> Engine(form), connects |-> Connects(form),
     table_schemas |-> LoadedSchemas(form), df |-> frame, openai_client |-> key]

\* initialize_agent: int(port) raises on a port that is no number
InitializationFails(form) ==
    HasConfig(form) /\ form.db_type # "sqlite" /\ form.port = "abc"

\* the status message of initialize_agent
InitializedStatus(form, key) ==
    "[ok] Agent initialized successfully!"
    \o (IF HasConfig(form) THEN "\n[ok] Connected to " \o form.db_type \o " database" ELSE "")
    \o (IF key THEN "\n[ok] OpenAI integration enabled" ELSE "")

\* the user clicks Initialize Agent
InitializeAgent ==
    /\ \E form \in DatabaseForms, key \in BOOLEAN :
         IF InitializationFails(form)
         THEN /\ gradio_out' = Output("initialize_agent", "", "[x] Initialization failed", "", "")
              /\ UNCHANGED gradio_agent
         ELSE /\ gradio_agent' = GradioAgent(form, SampleData, key)
              /\ gradio_out' = Output("initialize_agent", "", InitializedStatus(form, key), "", "")
    /\ UNCHANGED agent
    /\ UNCHANGED story
    /\ UNCHANGED <<call, reply, steps, session_state>>

\* the file given to upload_csv_file: none, one pd.read_csv cannot read, a CSV
CsvFiles ==
    { [kind |-> "none", frame |-> NoDf], [kind |-> "unreadable", frame |-> NoDf] }
    \cup { [kind |-> "csv", frame |-> f] : f \in DataFrames }

\* the user uploads a CSV file; key is whether OPENAI_API_KEY is set
UploadCsvFile ==
    /\ \E file \in CsvFiles, key \in BOOLEAN :
         IF file.kind = "none"
         THEN /\ gradio_out' = Output("upload_csv_file", "", "No file uploaded", "", "")
              /\ UNCHANGED gradio_agent
         ELSE IF file.kind = "unreadable"
         THEN /\ gradio_out' = Output("upload_csv_file", "", "[x] Error uploading CSV", "", "")
              /\ UNCHANGED gradio_agent
         ELSE /\ gradio_agent' =
                    IF gradio_agent.set THEN [gradio_agent EXCEPT !.df = file.frame]
                    ELSE GradioAgent([db_type |-> "", database |-> "", port |-> "",
                                      path |-> [kind |-> "unopenable", tables |-> <<>>]],
                                     file.frame, key)
              /\ gradio_out' = Output("upload_csv_file", "", "[ok] CSV uploaded successfully!", "", "")
    /\ UNCHANGED agent
    /\ UNCHANGED story
    /\ UNCHANGED <<call, reply, steps, session_state>>

RECURSIVE Without(_, _)
\* str.replace(old, "")
Without(old, s) ==
    IF Len(s) < Len(old) THEN s
    ELSE IF SubSeq(s, 1, Len(old)) = old THEN Without(old, SubSeq(s, Len(old) + 1, Len(s)))
    ELSE SubSeq(s, 1, 1) \o Without(old, SubSeq(s, 2, Len(s)))

\* generate_sql_with_openai / generate_pandas_with_openai: language is the name
\* of the markdown fence removed
generate_with_openai(ga, language, llm) ==
    IF ~ga.openai_client
    THEN RaiseMsg("ValueError", "OpenAI client not initialized. Please provide API key.")
    ELSE IF llm.raises THEN RaiseMsg("Exception", "OpenAI API error: Connection error.")
    ELSE Ok(Strip(Without("^^^", Without("^^^" \o language, Strip(llm.content)))))

\* the questions typed in the query box: none, blanks, an example of the page
GradioQuestions == { "", "  ", "count customers by city" }

\* process_natural_query(query, output_type, use_openai). The class defines no
\* process_query: the attribute lookup raises, and no line after it is reached.
process_natural_query(ga, query, output_type, use_openai) ==
    IF ~ga.set
    THEN Output("process_natural_query", query, "[x] Please initialize the agent first", "", "")
    ELSE IF Strip(query) = ""
    THEN Output("process_natural_query", query, "[x] Please enter a query", "", "")
    ELSE LET method == GetAttr("process_query")
         IN  CASE method.exc # "None" ->
                  Output("process_natural_query", query,
                         "[x] Processing error: " \o method.val, "", "")

\* the user clicks Process Query
ProcessNaturalQuery ==
    /\ \E query \in GradioQuestions, output_type \in {"sql", "pandas"}, use_openai \in BOOLEAN :
         gradio_out' = process_natural_query(gradio_agent, query, output_type, use_openai)
    /\ UNCHANGED agent
    /\ UNCHANGED story
    /\ UNCHANGED <<call, reply, steps, session_state, gradio_agent>>

\* a caller invokes agent.generate_sql_with_openai(q) or
\* agent.generate_pandas_with_openai(q); the output records the message of the
\* exception as status, the code returned, and what the provider did as display
GenerateWithOpenAI ==
    /\ gradio_agent.set
    /\ \E query \in GradioQuestions \ {""}, language \in {"sql", "python"},
          llm \in LlmOutcomes :
         LET generated == generate_with_openai(gradio_agent, language, llm)
         IN  gradio_out' =
                Output("generate_" \o language \o "_with_openai", query,
                       IF generated.exc = "None" THEN "" ELSE generated.val,
                       IF generated.exc = "None" THEN generated.val ELSE "",
                       IF ~gradio_agent.openai_client THEN "absent"
                       ELSE IF llm.raises THEN "raised" ELSE "answered")
    /\ UNCHANGED agent
    /\ UNCHANGED story
    /\ UNCHANGED <<call, reply, steps, session_state, gradio_agent>>

\* the app is launched: no agent yet
InitGradio ==
    /\ conn = NoConn /\ table_schema = <<>> /\ df = NoDf /\ openai_client = FALSE
    /\ call = NoCall
    /\ NoRequest
    /\ NoApp

NextGradio == InitializeAgent \/ UploadCsvFile \/ ProcessNaturalQuery \/ GenerateWithOpenAI

SpecGradio == InitGradio /\ [][NextGradio]_vars

-----------------------------------------------------------------------------
(* StoryWeaver: each interaction runs main() again over st.session_state,   *)
(* with one widget changed. st.experimental_rerun() ends the run where it   *)
(* is called; the run that follows has no button pressed and changes        *)
(* nothing. The emoji that open the messages of the page are left out.      *)

\* scene.image = None
None == "None"

\* StoryScene(id, prompt)
StoryScene(id, prompt) ==
    [id |-> id, prompt |-> prompt, image |-> None, generated |-> FALSE]

\* the scenes main() puts into the session on its first run
InitialScenes ==
    << StoryScene(1, "A brave knight standing at a castle gate at dawn"),
       StoryScene(2, "The same knight entering a dark, mysterious forest"),
       StoryScene(3, "The knight discovering a magical glowing sword in a cave") >>

\* str(n) of a count of scenes
Str(n) == << "0", "1", "2", "3", "4", "5", "6", "7", "8", "9" >>[n + 1]

\* what a call of generate_image meets: no model configured (no API key),
\* generate_content raising, or a response
GenerationOutcomes == { "no_model", "raises", "image" }

\* generate_image(prompt, reference_image): the data URL of the placeholder
\* drawn from the prompt, or None after st.error
generate_image(prompt, outcome) ==
    IF outcome = "image" THEN "data:image/png;base64," \o prompt ELSE None

\* what a run of main() did: the handler that ran, the scene whose text area
\* was edited (-1 if none), the messages shown with st.success and st.info (those
\* of st.error are left out), the values play_story_sequence gave current_scene
Page(handler, scene, said, played) ==
    [handler |-> handler, scene |-> scene, said |-> said, played |-> played]

\* the scene of a Python index
SceneAt(scenes, i) == scenes[i + 1]

\* scene.image = image; scene.generated = True, if image
WithImage(scene, image) ==
    IF image # None THEN [scene EXCEPT !.image = image, !.generated = TRUE] ELSE scene

\* generate_single_scene(story_weaver, scene_index)
generate_single_scene(scenes, scene_index, outcome) ==
    [scenes EXCEPT ![scene_index + 1] =
        WithImage(@, generate_image(@.prompt, outcome))]

\* the outcomes the calls of one generate_all_scenes meet, one per scene that
\* is not generated: the model is configured for all of them or for none
OutcomesOfAll(scenes) ==
    LET calls == { i \in DOMAIN scenes : ~scenes[i].generated }
    IN  { [i \in calls |-> "no_model"] } \cup [calls -> { "raises", "image" }]

\* generate_all_scenes(story_weaver): the scenes after the loop
generate_all_scenes(scenes, outcomes) ==
    [i \in DOMAIN scenes |->
        IF ~scenes[i].generated
        THEN WithImage(scenes[i], generate_image(scenes[i].prompt, outcomes[i]))
        ELSE scenes[i]]

\* what generate_all_scenes shows with st.success after the loop
SaidOfAll(scenes, outcomes) == { "All scenes have been generated!" }

\* the prompt edit of main(), had it left the image of the scene in place
EditedSceneKeepingImage(scene, new_prompt) ==
    [scene EXCEPT !.prompt = new_prompt, !.generated = FALSE]

\* if new_prompt != scene.prompt: the scene after the three assignments
EditedScene(scene, new_prompt) ==
    [scene EXCEPT !.prompt = new_prompt, !.generated = FALSE, !.image = None]

\* the prompt edit, had it invalidated every scene of the story
EditPromptInAll(scenes, i, new_prompt) ==
    [j \in DOMAIN scenes |->
        IF j = i + 1 THEN EditedScene(scenes[j], new_prompt)
        ELSE [scenes[j] EXCEPT !.generated = FALSE, !.image = None]]

\* the scene list of main() in a run where text area i holds new_prompt: the
\* other text areas hold the prompts of their scenes
EditPromptIn(scenes, i, new_prompt) ==
    [scenes EXCEPT ![i + 1] = EditedScene(@, new_prompt)]

\* the scene button, had it taken the number of its label for the index
SelectedByNumber(i) == i + 1

\* st.session_state.current_scene = i of the button "Scene {i + 1}"
Selected(i) == i

\* max(0, current_scene - 1)
PreviousScene(cur) == IF cur - 1 > 0 THEN cur - 1 ELSE 0

\* min(len(story_scenes) - 1, current_scene + 1)
NextScene(cur, n) == IF cur + 1 < n - 1 THEN cur + 1 ELSE n - 1

\* play_story_sequence(): the values current_scene is given before the run
\* ends, which is at the st.experimental_rerun() of the first iteration
play_story_sequence(scenes) ==
    IF Len(scenes) = 0 THEN <<>> ELSE << 0 >>

\* add_new_scene()
add_new_scene(scenes) ==
    Append(scenes,
           StoryScene(Len(scenes) + 1,
                      "Continue the story from scene " \o Str(Len(scenes)) \o "..."))

\* apply_scene_edit(story_weaver, scene_index, edit_instruction): the image is
\* generated from the prompt and the instruction, the prompt is left as it is
apply_scene_edit(scenes, scene_index, edit_instruction, outcome) ==
    [scenes EXCEPT ![scene_index + 1] =
        WithImage(@, generate_image(@.prompt \o ". " \o edit_instruction, outcome))]

\* what the user types into the text area of a scene
TypedPrompts == { "A dragon asleep on a hoard of gold" }

\* what the user types into Quick Edit
EditInstructions == { "", "make it darker" }

\* the Python indexes of the list
Indexes(scenes) == 0 .. Len(scenes) - 1

\* the user clicks "Scene {i + 1}" in the scene list
SceneButton ==
    /\ \E i \in Indexes(story_scenes) :
         /\ current_scene' = Selected(i)
         /\ story_page' = Page("scene_btn", -1, {}, <<>>)
    /\ UNCHANGED story_scenes
    /\ UNCHANGED agent
    /\ UNCHANGED <<call, reply, steps, session_state, gradio_agent, gradio_out>>

\* the user clicks the generate button of a scene in the list, shown while the
\* scene is not generated
GenerateScene ==
    /\ \E i \in Indexes(story_scenes), outcome \in GenerationOutcomes :
         /\ ~SceneAt(story_scenes, i).generated
         /\ story_scenes' = generate_single_scene(story_scenes, i, outcome)
         /\ story_page' =
               Page("gen_btn", -1,
                    IF outcome = "image"
                    THEN { "Scene " \o Str(i + 1) \o " generated!" } ELSE {},
                    <<>>)
    /\ UNCHANGED current_scene
    /\ UNCHANGED agent
    /\ UNCHANGED <<call, reply, steps, session_state, gradio_agent, gradio_out>>

\* the user clicks "Generate Scene" in the viewer, shown while the current
\* scene has no image
GenerateCurrentScene ==
    /\ story_scenes # <<>>
    /\ SceneAt(story_scenes, current_scene).image = None
    /\ \E outcome \in GenerationOutcomes :
         /\ story_scenes' = generate_single_scene(story_scenes, current_scene, outcome)
         /\ story_page' =
               Page("generate_current", -1,
                    IF outcome = "image"
                    THEN { "Scene " \o Str(current_scene + 1) \o " generated!" }
                    ELSE {},
                    <<>>)
    /\ UNCHANGED current_scene
    /\ UNCHANGED agent
    /\ UNCHANGED <<call, reply, steps, session_state, gradio_agent, gradio_out>>

\* the user changes the text of the text area of scene i
EditPrompt ==
    /\ \E i \in Indexes(story_scenes), new_prompt \in TypedPrompts :
         /\ new_prompt # SceneAt(story_scenes, i).prompt
         /\ story_scenes' = EditPromptIn(story_scenes, i, new_prompt)
         /\ story_page' = Page("prompt", i, {}, <<>>)
    /\ UNCHANGED current_scene
    /\ UNCHANGED agent
    /\ UNCHANGED <<call, reply, steps, session_state, gradio_agent, gradio_out>>

\* the user clicks Previous, disabled on the first scene
PreviousButton ==
    /\ story_scenes # <<>>
    /\ current_scene # 0
    /\ current_scene' = PreviousScene(current_scene)
    /\ story_page' = Page("previous", -1, {}, <<>>)
    /\ UNCHANGED story_scenes
    /\ UNCHANGED agent
    /\ UNCHANGED <<call, reply, steps, session_state, gradio_agent, gradio_out>>

\* the user clicks Next, disabled on the last scene
NextButton ==
    /\ story_scenes # <<>>
    /\ current_scene # Len(story_scenes) - 1
    /\ current_scene' = NextScene(current_scene, Len(story_scenes))
    /\ story_page' = Page("next", -1, {}, <<>>)
    /\ UNCHANGED story_scenes
    /\ UNCHANGED agent
    /\ UNCHANGED <<call, reply, steps, session_state, gradio_agent, gradio_out>>

\* the user clicks Apply Edit; without an instruction nothing is applied
ApplyEdit ==
    /\ story_scenes # <<>>
    /\ \E edit_instruction \in EditInstructions, outcome \in GenerationOutcomes :
         IF edit_instruction = ""
         THEN /\ outcome = "image"
              /\ story_page' = Page("apply_edit", -1, {}, <<>>)
              /\ UNCHANGED story_scenes
         ELSE /\ story_scenes' =
                    apply_scene_edit(story_scenes, current_scene, edit_instruction, outcome)
              /\ story_page' =
                    Page("apply_edit", -1,
                         IF outcome = "image" THEN { "Edit applied!" } ELSE {},
                         <<>>)
    /\ UNCHANGED current_scene
    /\ UNCHANGED agent
    /\ UNCHANGED <<call, reply, steps, session_state, gradio_agent, gradio_out>>

\* the user clicks Generate All Scenes
GenerateAllScenes ==
    /\ story_scenes # <<>>
    /\ \E outcomes \in OutcomesOfAll(story_scenes) :
         /\ story_scenes' = generate_all_scenes(story_scenes, outcomes)
         /\ story_page' =
               Page("generate_all_scenes", -1, SaidOfAll(story_scenes, outcomes), <<>>)
    /\ UNCHANGED current_scene
    /\ UNCHANGED agent
    /\ UNCHANGED <<call, reply, steps, session_state, gradio_agent, gradio_out>>

\* the user clicks Play Story
PlayStory ==
    /\ story_scenes # <<>>
    /\ LET played == play_story_sequence(story_scenes)
       IN  /\ current_scene' = played[Len(played)]
           /\ story_page' =
                 Page("play_story_sequence", -1, { "Playing story sequence..." }, played)
    /\ UNCHANGED story_scenes
    /\ UNCHANGED agent
    /\ UNCHANGED <<call, reply, steps, session_state, gradio_agent, gradio_out>>

\* the user clicks Add New Scene
AddNewScene ==
    /\ story_scenes # <<>>
    /\ Len(story_scenes) < MaxScenes
    /\ story_scenes' = add_new_scene(story_scenes)
    /\ story_page' = Page("add_new_scene", -1, {}, <<>>)
    /\ UNCHANGED current_scene
    /\ UNCHANGED agent
    /\ UNCHANGED <<call, reply, steps, session_state, gradio_agent, gradio_out>>

\* the first run of main(): the session holds the three scenes, the first current
InitStory ==
    /\ conn = NoConn /\ table_schema = <<>> /\ df = NoDf /\ openai_client = FALSE
    /\ call = NoCall
    /\ NoRequest
    /\ session_state = NoSession
    /\ gradio_agent = NoGradioAgent
    /\ gradio_out = NoOutput
    /\ story_scenes = InitialScenes
    /\ current_scene = 0
    /\ story_page = NoPage

NextStory ==
    \/ SceneButton \/ GenerateScene \/ GenerateCurrentScene \/ EditPrompt
    \/ PreviousButton \/ NextButton \/ ApplyEdit \/ GenerateAllScenes
    \/ PlayStory \/ AddNewScene

SpecStory == InitStory /\ [][NextStory]_vars

-----------------------------------------------------------------------------
(* Definitions the claims share *)

Has(word) == Contains(word, Lower(call.query))

Returned(text) == call.result = Ok(text)

AllLabelsStr == \A i \in 1..Len(df.columns) : df.columns[i].str

RECURSIVE SchemaColumns(_)
\* the columns of the schema descriptor, tables in schema order, columns as declared
SchemaColumns(schema) ==
    IF schema = <<>> THEN <<>>
    ELSE Head(schema).columns \o SchemaColumns(Tail(schema))

FrameColumns == [i \in 1..Len(df.columns) |-> df.columns[i].text]

\* the column names of a source that occur in the question, compared without case
HitsIn(names) == { i \in 1..Len(names) : Contains(Lower(names[i]), Lower(call.query)) }

FirstIn(names) == names[CHOOSE i \in HitsIn(names) : \A j \in HitsIn(names) : i <= j]

\* the column the ordered first-hit search of the specification infers
InferredColumn ==
    IF HitsIn(SchemaColumns(table_schema)) # {} THEN FirstIn(SchemaColumns(table_schema))
    ELSE IF HitsIn(FrameColumns) # {} THEN FirstIn(FrameColumns)
    ELSE IF HitsIn(<<"name", "age", "amount", "city", "email", "date">>) # {}
    THEN FirstIn(<<"name", "age", "amount", "city", "email", "date">>)
    ELSE "id"

\* the first known table, or the fixed literal
FirstTable == IF table_schema = <<>> THEN "customers" ELSE table_schema[1].name

GroupSql ==
    "SELECT " \o InferredColumn \o ", COUNT(*) as count FROM " \o FirstTable
    \o " GROUP BY " \o InferredColumn \o " ORDER BY count DESC;"

SumSql == "SELECT SUM(" \o InferredColumn \o ") as total FROM " \o FirstTable \o ";"

AvgSql == "SELECT AVG(" \o InferredColumn \o ") as average FROM " \o FirstTable \o ";"

FilterSql ==
    "SELECT * FROM " \o FirstTable \o " WHERE " \o InferredColumn \o " = 'value';"

DefaultSql == "SELECT * FROM " \o FirstTable \o " LIMIT 10;"

MeanExpr == "df['" \o InferredColumn \o "'].mean()"

SumExpr == "df['" \o InferredColumn \o "'].sum()"

NotNullExpr == "df[df['" \o InferredColumn \o "'].notna()]"

GroupWord == Has("count") \/ Has("group") \/ Has("by")

SumWord == Has("total") \/ Has("sum")

AverageWord == Has("average") \/ Has("avg") \/ Has("mean")

FilterWord == Has("filter") \/ Has("where")

-----------------------------------------------------------------------------
(* C1 *)

-----------------------------------------------------------------------------
(* C2 *)

\* C2: a question with no recognised keyword is translated to the safe default:
\* SQL `SELECT * FROM T LIMIT 10;`, T the first table of the schema or the
\* literal customers when the schema is empty, and TABULAR `df.head(10)`; the
\* call returns, it reports no error.
C2_DefaultOnNoKeyword ==
    (~GroupWord /\ ~SumWord /\ ~AverageWord /\ ~FilterWord) =>
        /\ call.op = "sql" =>
              Returned(IF table_schema = <<>> THEN "SELECT * FROM customers LIMIT 10;"
                       ELSE "SELECT * FROM " \o table_schema[1].name \o " LIMIT 10;")
        /\ call.op = "pandas" => Returned("df.head(10)")

C2_Witness ==
    /\ call.op = "sql"
    /\ call.query = "gibberish xyz"
    /\ table_schema = <<>>
    /\ Returned("SELECT * FROM customers LIMIT 10;")

-----------------------------------------------------------------------------
(* C3 *)

\* C3, as claimed: a question containing neither "group" nor both "count" and
\* "by" is never translated to the SELECT c, COUNT(*) ... GROUP BY c template.
C3_GroupTemplateOnlyForGrouping ==
    (call.op = "sql" /\ ~Has("group") /\ ~(Has("count") /\ Has("by"))) =>
        ~(call.result.exc = "None" /\ Contains(" GROUP BY ", call.result.val))

-----------------------------------------------------------------------------
(* C4 *)

\* C4: the SQL keyword groups are tested in the order count/group/by, total/sum,
\* average/avg/mean, filter/where, and the output is exactly the template of the
\* first group that matches, whatever later groups match as well; with no match
\* it is the default.
C4_FirstMatchingGroupWins ==
    call.op = "sql" =>
        Returned(IF GroupWord THEN GroupSql
                 ELSE IF SumWord THEN SumSql
                 ELSE IF AverageWord THEN AvgSql
                 ELSE IF FilterWord THEN FilterSql
                 ELSE DefaultSql)

C4_Witness ==
    /\ call.op = "sql"
    /\ Has("average") /\ Has("group") /\ ~Has("count") /\ ~Has("by")
    /\ Returned(GroupSql)
    /\ call.result.val # AvgSql

-----------------------------------------------------------------------------
(* C5 *)

\* C5, as claimed: for TABULAR a question that matches the average group and
\* the filter group, and does not contain "group", yields the average
\* expression df['C'].mean(), C the inferred column.
C5_PandasAverageBeforeFilter ==
    (call.op = "pandas" /\ AverageWord /\ FilterWord /\ ~Has("group")) =>
        Returned(MeanExpr)

-----------------------------------------------------------------------------
(* C6 *)

\* C6, as claimed: without "group" in the question, TABULAR recognises total/sum
\* (a sum aggregate), avg (as average and mean) and where (as filter), in the
\* priority order of the groups.
C6_PandasSameKeywords ==
    (call.op = "pandas" /\ ~Has("group")) =>
        /\ SumWord => Returned(SumExpr)
        /\ (~SumWord /\ Has("avg")) => Returned(MeanExpr)
        /\ (~SumWord /\ ~AverageWord /\ Has("where")) => Returned(NotNullExpr)

-----------------------------------------------------------------------------
(* C7 *)

KnownColumnHit ==
    HitsIn(SchemaColumns(table_schema)) # {} \/ HitsIn(FrameColumns) # {}

\* C7, as claimed and read with the priority order of the groups: a question
\* containing "average" or "mean", no keyword of the two groups before it, and
\* a known column C yields the TABULAR df['C'].mean(), C the first such column.
C7_PandasMeanOfKnownColumn ==
    (/\ call.op = "pandas"
     /\ Has("average") \/ Has("mean")
     /\ ~GroupWord /\ ~SumWord
     /\ KnownColumnHit) => Returned(MeanExpr)

-----------------------------------------------------------------------------
(* C8 *)

\* C8: for every question containing "group" and "by" the SQL output is
\* SELECT c, COUNT(*) as count FROM t GROUP BY c ORDER BY count DESC; with c
\* the first matching column and t the first known table.
C8_GroupByTemplate ==
    /\ (call.op = "sql" /\ Has("group") /\ Has("by")) =>
          Returned("SELECT " \o InferredColumn \o ", COUNT(*) as count FROM " \o FirstTable
                   \o " GROUP BY " \o InferredColumn \o " ORDER BY count DESC;")
    \* the example of the specification, over {customers: [id, name, city]}
    /\ (/\ call.op = "sql"
        /\ call.query = "count customers by city"
        /\ table_schema = << [name |-> "customers", columns |-> <<"id", "name", "city">>] >>)
          => Returned("SELECT city, COUNT(*) as count FROM customers GROUP BY city ORDER BY count DESC;")

C8_Witness ==
    /\ call.op = "sql"
    /\ call.query = "group by city"
    /\ Len(table_schema) = MaxTables
    /\ table_schema[1].name = "customers"
    /\ Returned("SELECT city, COUNT(*) as count FROM customers GROUP BY city ORDER BY count DESC;")

-----------------------------------------------------------------------------
(* C9 *)

\* C9: column inference returns the first schema column (tables in schema
\* order, columns as declared) contained in the question; only if there is
\* none, the first dataframe column contained in it; only if there is none, the
\* first of name, age, amount, city, email, date contained in it; else id.
C9_OrderedFirstHit ==
    call.op = "column" =>
        LET schemaCols == SchemaColumns(table_schema)
            defaults == <<"name", "age", "amount", "city", "email", "date">>
        IN  /\ HitsIn(schemaCols) # {} => Returned(FirstIn(schemaCols))
            /\ (HitsIn(schemaCols) = {} /\ HitsIn(FrameColumns) # {}) =>
                  Returned(FirstIn(FrameColumns))
            /\ (HitsIn(schemaCols) = {} /\ HitsIn(FrameColumns) = {}
                  /\ HitsIn(defaults) # {}) => Returned(FirstIn(defaults))
            /\ (HitsIn(schemaCols) = {} /\ HitsIn(FrameColumns) = {}
                  /\ HitsIn(defaults) = {}) => Returned("id")

\* a schema column and an earlier-declared dataframe column both occur in the
\* question, and the schema column is returned
C9_Witness ==
    /\ call.op = "column"
    /\ HitsIn(SchemaColumns(table_schema)) # {}
    /\ HitsIn(FrameColumns) # {}
    /\ FirstIn(FrameColumns) # FirstIn(SchemaColumns(table_schema))
    /\ Returned(FirstIn(SchemaColumns(table_schema)))

\* C11: a call to fallback_sql_generation or fallback_pandas_generation leaves
\* the agent's schema descriptor, dataframe, database connection and LLM client
\* as they were before the call.
C11_FallbackLeavesAgentUnchanged ==
    [][(call.op = "none" /\ call'.op \in {"sql", "pandas"}) => UNCHANGED agent]_vars

\* a fallback translation was made on an agent that has a schema and a dataframe
C11_Witness ==
    /\ call.op \in {"sql", "pandas"}
    /\ table_schema # <<>>
    /\ df # NoDf
    /\ conn.open

-----------------------------------------------------------------------------
(* C12 *)

-----------------------------------------------------------------------------
(* C13 *)

\* C13, as claimed: with the history panel on the page, the history holds the
\* record of every request made so far (of the 5 most recent ones once there
\* are more), in request order, whether or not the panel was shown when the
\* request was made. The n-th request of a session is stamped n.
C13_EveryRequestInHistory ==
    session_state.show_history =>
        LET history == session_state.query_history
            n == session_state.clock
            k == IF n < 5 THEN n ELSE 5
        IN  /\ Len(history) >= k
            /\ \A i \in 1..k : history[Len(history) - k + i].timestamp = n - k + i

-----------------------------------------------------------------------------
(* C14 *)

\* C14, as claimed: when connect_to_database(p) succeeds on an agent that was
\* connected to another database, table_schema holds exactly the tables of p,
\* and the first known table, if p has tables, is a table of p.
C14_SchemaDiscardedOnReconnect ==
    [][(/\ call.op = "none" /\ call'.op = "connect" /\ call'.result = Ok("True")
        /\ conn.open /\ conn.tables # conn'.tables)
         => /\ table_schema' = load_table_schema(<<>>, conn'.tables)
            /\ conn'.tables # <<>> =>
                  TableName(table_schema').val \in { t.name : t \in Range(conn'.tables) }]_vars

-----------------------------------------------------------------------------
(* C15 *)

\* C15: when no LLM client is configured or the completion raises, openai_to_sql
\* returns exactly fallback_sql_generation(question) and openai_to_pandas
\* exactly fallback_pandas_generation(question); the reply then carries that
\* code, and reports success=False only if the code was executed.
C15_ProviderErrorRecovered ==
    (call.op = "process" /\ steps.provider \in {"absent", "raised"}) =>
        /\ steps.output_type = "sql" =>
              steps.translated = fallback_sql_generation(call.query)
        /\ steps.output_type = "pandas" =>
              steps.translated = fallback_pandas_generation(call.query)
        /\ reply.success => reply.generated_code = steps.translated.val
        /\ ~reply.success => steps.executions = 1

\* the completion raised, and the request succeeded with the fallback's code
C15_Witness ==
    /\ call.op = "process"
    /\ steps.provider = "raised"
    /\ steps.output_type = "sql"
    /\ steps.executed = "DataFrame"
    /\ reply.success
    /\ reply.generated_code = fallback_sql_generation(call.query).val

-----------------------------------------------------------------------------
(* C16 *)

\* the status texts of the gradio app that report an error open with the cross
ErrorStatus(status) == Len(status) >= 3 /\ SubSeq(status, 1, 3) = "[x]"

\* C16, as claimed: in the gradio app, when no client is configured or the
\* completion fails, a question that is processed still yields generated code,
\* the keyword fallback's, and no error: from process_natural_query a status
\* that is no error with code, from the generate methods a returned code.
C16_GradioFallsBack ==
    /\ (/\ gradio_out.handler = "process_natural_query"
        /\ gradio_agent.set /\ ~gradio_agent.openai_client
        /\ Strip(gradio_out.query) # "")
         => (~ErrorStatus(gradio_out.status) /\ gradio_out.code # "")
    /\ (/\ gradio_out.handler \in {"generate_sql_with_openai", "generate_python_with_openai"}
        /\ gradio_out.display \in {"absent", "raised"})
         => (gradio_out.status = "" /\ gradio_out.code # "")

-----------------------------------------------------------------------------
(* C17 *)

\* the messages of the errors sqlite and pandas raise on the generated code
UnderlyingErrors ==
    { "Cannot operate on a closed database.", "file is not a database",
      "incomplete input", "invalid syntax", "Could not convert string to numeric" }
    \cup { "no such table: " \o t : t \in TableNames }
    \cup { "no such column: " \o c : c \in ColumnNames }
    \cup { "'" \o c \o "'" : c \in ColumnNames }

\* C17: when executing the generated code raises, the reply has success=False
\* and a results text that holds the underlying error message; the request
\* translated once and executed once.
C17_ExecutionErrorSurfaced ==
    (call.op = "process" /\ steps.executed = "raised") =>
        /\ ~reply.success
        /\ reply.results.kind = "error"
        /\ \E message \in UnderlyingErrors :
              reply.results.text \in
                 { "Error: Pandas execution error: " \o message,
                   "Error: SQL execution error: " \o message,
                   "Error: SQL execution error: Execution failed on sql '"
                      \o steps.translated.val \o "': " \o message }
        /\ steps.translations = 1
        /\ steps.executions = 1

\* the statement names a table the connected database does not have
C17_Witness ==
    /\ call.op = "process"
    /\ steps.executed = "raised"
    /\ conn.open /\ conn.fault = ""
    /\ steps.translated.val = "SELECT * FROM customers LIMIT 10;"
    /\ reply.results.text =
          "Error: SQL execution error: Execution failed on sql "
          \o "'SELECT * FROM customers LIMIT 10;': no such table: customers"

-----------------------------------------------------------------------------
(* C18 *)

\* C18, as claimed: process_query reports success=False only when execute_sql
\* or execute_pandas raised; code that executes without error, whatever the
\* shape of its result, gives success=True.
C18_OnlyExecutionRaises ==
    call.op = "process" => (reply.success <=> steps.executed # "raised")

-----------------------------------------------------------------------------
(* C19 *)

IdentifierChars ==
    LET chars == "abcdefghijklmnopqrstuvwxyzABCDEFGHIJKLMNOPQRSTUVWXYZ0123456789_"
    IN  { SubSeq(chars, i, i) : i \in 1..Len(chars) }

\* a name SQL reads as one identifier without quoting
Identifier(name) ==
    name # "" /\ \A i \in 1..Len(name) : SubSeq(name, i, i) \in IdentifierChars

\* a name a Python string literal in single quotes can hold as it is
Quotable(name) ==
    \A i \in 1..Len(name) : SubSeq(name, i, i) \notin {"'", "\\", "\n"}

\* the names the agent of the current state can put into generated code
KnownTables == { table_schema[i].name : i \in DOMAIN table_schema } \cup {"customers"}

KnownColumns ==
    Range(SchemaColumns(table_schema)) \cup Range(FrameColumns)
    \cup Range(DefaultColumns) \cup {"id"}

\* a single SELECT statement of the translator's forms over identifiers
WellFormedSelect(sql) ==
    \E t \in KnownTables, c \in KnownColumns :
        Identifier(t) /\ Identifier(c) /\ sql \in StatementsOver(t, c)

\* an expression over df of the translator's forms with a column name that its
\* string literal can hold
WellFormedExpression(code) ==
    \/ code = "df.head(10)"
    \/ \E c \in KnownColumns :
         /\ Quotable(c)
         /\ code \in { "df.groupby('" \o c \o "').size().sort_values(ascending=False)",
                       "df[df['" \o c \o "'].notna()]",
                       "df['" \o c \o "'].mean()" }

\* C19, as claimed: for every question and every schema and dataframe, column
\* names with spaces or quote characters included, the fallback SQL output is
\* one well-formed SELECT statement and the fallback TABULAR output a
\* well-formed expression over df.
C19_GeneratedCodeWellFormed ==
    /\ call.op = "sql" => WellFormedSelect(call.result.val)
    /\ call.op = "pandas" => WellFormedExpression(call.result.val)

-----------------------------------------------------------------------------
(* C20 *)

\* C20, as claimed: once initialize_agent or upload_csv_file created the agent,
\* process_natural_query with a non-blank question never returns a processing
\* error that the agent object itself causes.
C20_GradioReachesTranslation ==
    (/\ gradio_out.handler = "process_natural_query"
     /\ gradio_agent.set
     /\ Strip(gradio_out.query) # "")
      => gradio_out.status #
            "[x] Processing error: 'EnhancedDataAgent' object has no attribute 'process_query'"

-----------------------------------------------------------------------------
(* C21 *)

\* the agent holds no data source of the output type of the request: self.conn
\* is None for 'sql', self.df is None for 'pandas'
NoSourceOfRequest ==
    /\ call.op = "process"
    /\ IF steps.output_type = "sql" THEN ~conn.open ELSE ~df.present

\* the reply of a request that only translated: the generated code, success and
\* the message that the code was generated only; nothing was executed
TranslatedOnly ==
    /\ steps.translations = 1
    /\ steps.executions = 0
    /\ steps.translated.exc = "None"
    /\ reply.success
    /\ reply.generated_code = steps.translated.val
    /\ reply.results =
          Results("message",
                  IF steps.output_type = "sql"
                  THEN "No database connected - code generated only"
                  ELSE "No dataframe loaded - code generated only")

-----------------------------------------------------------------------------
(* C22 *)

\* the run edited the prompt of the scene with Python index i
PromptEdited(i) ==
    /\ story_page'.handler = "prompt"
    /\ story_page'.scene = i

\* C22: editing the prompt text of a scene invalidates exactly that scene: its
\* prompt is the new text, its generated flag becomes False and its image None,
\* while every other scene (prompt, image, generated flag) and the current-scene
\* index are unchanged, and no scene is added or removed.
C22_PromptEditInvalidatesOneScene ==
    [][\A i \in Indexes(story_scenes) :
          PromptEdited(i) =>
              /\ Len(story_scenes') = Len(story_scenes)
              /\ story_scenes'[i + 1].prompt # story_scenes[i + 1].prompt
              /\ story_scenes'[i + 1].id = story_scenes[i + 1].id
              /\ story_scenes'[i + 1].generated = FALSE
              /\ story_scenes'[i + 1].image = None
              /\ \A j \in Indexes(story_scenes) \ {i} :
                    story_scenes'[j + 1] = story_scenes[j + 1]
              /\ current_scene' = current_scene]_vars

\* the prompt of a generated scene was edited while another scene, the current
\* one, keeps its image
C22_Witness ==
    /\ story_page.handler = "prompt"
    /\ story_page.scene # current_scene
    /\ SceneAt(story_scenes, story_page.scene).prompt \in TypedPrompts
    /\ ~SceneAt(story_scenes, story_page.scene).generated
    /\ SceneAt(story_scenes, current_scene).generated
    /\ SceneAt(story_scenes, current_scene).image # None

-----------------------------------------------------------------------------
(* C23 *)

\* C23, as claimed: play_story_sequence plays through the story: from any
\* current scene the index takes the values 0, 1, ..., n-1 in order (n the
\* number of scenes) and playback ends with the last scene current.
C23_PlaysThroughAllScenes ==
    story_page.handler = "play_story_sequence" =>
        /\ story_page.played = [k \in 1..Len(story_scenes) |-> k - 1]
        /\ current_scene = Len(story_scenes) - 1

-----------------------------------------------------------------------------
(* C24 *)

\* C24, as claimed: when generate_all_scenes reports "All scenes have been
\* generated!", every scene of the story has generated = True and an image.
C24_AllGeneratedWhenReported ==
    "All scenes have been generated!" \in story_page.said =>
        \A i \in Indexes(story_scenes) :
            /\ SceneAt(story_scenes, i).generated
            /\ SceneAt(story_scenes, i).image # None

-----------------------------------------------------------------------------
(* C25 *)

\* initialize_agent returned a status that reports the database as connected
ConnectedStatus ==
    /\ gradio_out.handler = "initialize_agent"
    /\ Contains("Connected to ", gradio_out.status)

\* C25, as claimed: in the gradio app, whenever initialize_agent returns a status
\* containing "Connected to <db_type> database", the agent it created holds a
\* database engine, and the connection has not failed.
C25_ConnectedStatusMeansConnection ==
    ConnectedStatus => (gradio_agent.engine /\ gradio_agent.connects)

-----------------------------------------------------------------------------
(* C26 *)

\* C26: after any sequence of scene-button clicks, Previous, Next, Play Story and
\* Add New Scene (and the other actions of the page) the current-scene index is
\* a valid index of the scene list: 0 <= current_scene < len(story_scenes).
C26_CurrentSceneIsValidIndex ==
    story_scenes # <<>> => (0 <= current_scene /\ current_scene < Len(story_scenes))

\* the scene that was added is selected with its button: the last index of the
\* longest list
C26_Witness ==
    /\ Len(story_scenes) > Len(InitialScenes)
    /\ current_scene = Len(story_scenes) - 1
    /\ story_page.handler = "scene_btn"

-----------------------------------------------------------------------------
(* C27 *)

\* C27: for every scene, after any sequence of generate, generate-all,
\* prompt-edit, quick-edit and add-scene actions, with image generation
\* succeeding or failing, the generated flag is True if and only if the image is
\* set (not None).
C27_GeneratedIffImage ==
    \A i \in Indexes(story_scenes) :
        SceneAt(story_scenes, i).generated <=> (SceneAt(story_scenes, i).image # None)

\* a scene was generated and its prompt then edited, beside a scene that holds
\* the image of a quick edit and an added scene that was never generated
C27_Witness ==
    /\ Len(story_scenes) > Len(InitialScenes)
    /\ \E i \in Indexes(story_scenes) :
          /\ SceneAt(story_scenes, i).prompt \in TypedPrompts
          /\ ~SceneAt(story_scenes, i).generated
    /\ \E i \in Indexes(story_scenes) :
          /\ SceneAt(story_scenes, i).generated
          /\ SceneAt(story_scenes, i).image =
                generate_image(SceneAt(story_scenes, i).prompt \o ". make it darker", "image")
    /\ story_page.handler = "prompt"

-----------------------------------------------------------------------------
(* C28 *)

\* C28, as claimed: in the streamlit app the execution result shown under
\* "Query Results" is the result of executing the generated code shown above it:
\* after any sequence of Generate Query and Execute clicks, a displayed
\* execution_result was produced by executing last_result's generated code.
C28_ResultBelongsToShownCode ==
    session_state.execution_result # NoExecution =>
        session_state.execution_result.code = session_state.last_result.generated_code

====
